---- MODULE Spec2Model ----
(***************************************************************************)
(* Model of llm_python/main.py: a script that loads a local model twice    *)
(* (through the LangChain LlamaCpp wrapper, then directly through          *)
(* llama_cpp.Llama), issues one streaming completion request against a     *)
(* fixed prompt, concatenates the text of every streamed chunk into        *)
(* `result`, and prints a marker line followed by `result`.                *)
(*                                                                         *)
(* The script is a straight line of module-level statements, so the state  *)
(* is the module's global names, the position of the interpreter (pc),     *)
(* the generator returned by the engine, and what was written to standard  *)
(* output.  The external engine is the environment: it decides whether a   *)
(* load succeeds, which chunks the stream delivers, and how the stream     *)
(* ends (end-of-stream or an exception).                                   *)
(***************************************************************************)
EXTENDS Naturals, Sequences, FiniteSets, TLC

VARIABLES
    pc,        \* the statement the interpreter executes next
    llm,       \* global `llm`: the client object currently bound
    loaded,    \* history: classes of the clients constructed, in order
    prompt,    \* global `prompt`
    requests,  \* history: the create_completion calls issued, in order
    stream,    \* global `stream`: the generator returned by the engine
    output,    \* loop variable `output`: the chunk last delivered
    result,    \* global `result`
    stdout,    \* the writes made to standard output, in order
    raised,    \* the exception the engine raised, if any
    error,     \* the exception the process terminated with, if any
    runs,      \* number of process invocations started so far
    prev       \* what the previous process invocation left behind

vars == <<pc, llm, loaded, prompt, requests, stream, output, result, stdout,
          raised, error, runs, prev>>

----------------------------------------------------------------------------
(* Bounds of the model *)

\* longest fragment sequence the engine delivers in one stream
MaxFrags == 2

\* number of process invocations explored (the script is re-run)
MaxRuns == 2

\* texts a chunk may carry
Texts == {"a", "b"}

\* completion ids the engine may stamp on the chunks of one stream
CompletionIds == {"cmpl-1", "cmpl-2"}

\* exceptions the engine may raise
EngineErrors == {"ValueError", "RuntimeError"}

----------------------------------------------------------------------------
(* Values taken from the script *)

ModelPath == "./models/deepseek-coder-1.3b-instruct.Q4_0.gguf"

\* LlamaCpp(model_path=..., n_gpu_layers=1, n_batch=512, n_ctx=2048,
\*          f16_kv=True, verbose=True)
WrapperClient ==
    [class |-> "LlamaCpp", model_path |-> ModelPath, n_gpu_layers |-> 1,
     n_batch |-> 512, n_ctx |-> 2048, f16_kv |-> TRUE, verbose |-> TRUE]

\* Llama(model_path=..., n_ctx=512, last_n_tokens_size=256, n_threads=4,
\*       n_gpu_layers=1)
DirectClient ==
    [class |-> "Llama", model_path |-> ModelPath, n_ctx |-> 512,
     last_n_tokens_size |-> 256, n_threads |-> 4, n_gpu_layers |-> 1]

PromptText ==
    "You are an AI programming assistant, utilizing the Deepseek Coder model, developed by Deepseek Company, and you only answer questions related to computer science. For politically sensitive questions, security and privacy issues, and other non-computer science questions, you will refuse to answer.\n        ### Instruction:\n        What is javascript?\n        ### Response:\n      "

MaxTokens == 1200

StopSequences == <<"### Instruction:", "### Response:">>

Temperature == 0

MarkerText == "stream = True"

\* a global name that has not been assigned yet
Unbound == "<unbound>"

NoClient == [class |-> "none"]

NoStream == [id |-> "none", items |-> <<>>, pos |-> 0, ending |-> "none"]

NoChunk == [id |-> "none", choices |-> <<>>]

NoError == "none"

NoRun ==
    [pc |-> "none", id |-> "none", texts |-> <<>>, result |-> Unbound,
     stdout |-> <<>>]

----------------------------------------------------------------------------
(* The engine's streams *)

\* all sequences over S of length at most n
RECURSIVE SeqsUpTo(_, _)
SeqsUpTo(S, n) ==
    IF n = 0 THEN {<<>>}
    ELSE LET shorter == SeqsUpTo(S, n - 1)
         IN  shorter \cup {Append(s, x) : s \in {t \in shorter : Len(t) = n - 1}, x \in S}

\* a generator as returned by create_completion(..., stream=True): the texts
\* it will deliver, how far it has been consumed, and how it ends
Streams ==
    [id : CompletionIds, items : SeqsUpTo(Texts, MaxFrags), pos : {0},
     ending : {"eos"} \cup EngineErrors]

\* the chunk the generator yields at position i
ChunkAt(s, i) == [id |-> s.id, choices |-> <<[text |-> s.items[i], index |-> 0]>>]

----------------------------------------------------------------------------
(* Pure pieces of the script *)

\* variant: reads the chunk's id instead of its text
ChunkTextFromId(chunk) == chunk.id

\* output['choices'][0]['text']
ChunkText(chunk) == chunk.choices[1].text

\* variant: the new text is put in front of the buffer
AccumulatePrepend(res, text) == text \o res

\* variant: `=` instead of `+=`, the buffer is overwritten
AccumulateOverwrite(res, text) == text

\* result += text
Accumulate(res, text) == res \o text

\* print(x) writes x followed by a newline
PrintLine(text) == text \o "\n"

\* the arguments of the one create_completion call
CompletionRequest(client, p) ==
    [client |-> client.class, prompt |-> p, max_tokens |-> MaxTokens,
     stop |-> StopSequences, temperature |-> Temperature, stream |-> TRUE]

----------------------------------------------------------------------------
(* Process start *)

Init ==
    /\ pc = "load_wrapper"
    /\ llm = NoClient
    /\ loaded = <<>>
    /\ prompt = Unbound
    /\ requests = <<>>
    /\ stream = NoStream
    /\ output = NoChunk
    /\ result = Unbound
    /\ stdout = <<>>
    /\ raised = NoError
    /\ error = NoError
    /\ runs = 1
    /\ prev = NoRun

\* an uncaught exception e ends the process
Terminate(e) ==
    /\ raised' = e
    /\ error' = e
    /\ pc' = "failed"

----------------------------------------------------------------------------
(* Statements *)

\* llm = LlamaCpp(...)
LoadWrapper ==
    /\ pc = "load_wrapper"
    /\ llm' = WrapperClient
    /\ loaded' = Append(loaded, WrapperClient.class)
    /\ pc' = "load_direct"
    /\ UNCHANGED <<prompt, requests, stream, output, result, stdout, raised,
                   error, runs, prev>>

LoadWrapperFail ==
    /\ pc = "load_wrapper"
    /\ \E e \in EngineErrors : Terminate(e)
    /\ UNCHANGED <<llm, loaded, prompt, requests, stream, output, result,
                   stdout, runs, prev>>

\* variant: the direct client is constructed but `llm` is not rebound to it
LoadDirectNoRebind ==
    /\ pc = "load_direct"
    /\ llm' = llm
    /\ loaded' = Append(loaded, DirectClient.class)
    /\ pc' = "bind_prompt"
    /\ UNCHANGED <<prompt, requests, stream, output, result, stdout, raised,
                   error, runs, prev>>

\* llm = Llama(...)
LoadDirect ==
    /\ pc = "load_direct"
    /\ llm' = DirectClient
    /\ loaded' = Append(loaded, DirectClient.class)
    /\ pc' = "bind_prompt"
    /\ UNCHANGED <<prompt, requests, stream, output, result, stdout, raised,
                   error, runs, prev>>

LoadDirectFail ==
    /\ pc = "load_direct"
    /\ \E e \in EngineErrors : Terminate(e)
    /\ UNCHANGED <<llm, loaded, prompt, requests, stream, output, result,
                   stdout, runs, prev>>

\* prompt = """..."""
BindPrompt ==
    /\ pc = "bind_prompt"
    /\ prompt' = PromptText
    /\ pc' = "create_completion"
    /\ UNCHANGED <<llm, loaded, requests, stream, output, result, stdout,
                   raised, error, runs, prev>>

\* stream = llm.create_completion(prompt, max_tokens=1200, stop=[...],
\*                                temperature=0, stream=True)
CreateCompletion ==
    /\ pc = "create_completion"
    /\ requests' = Append(requests, CompletionRequest(llm, prompt))
    /\ \E s \in Streams : stream' = s
    /\ pc' = "init_result"
    /\ UNCHANGED <<llm, loaded, prompt, output, result, stdout, raised, error,
                   runs, prev>>

CreateCompletionFail ==
    /\ pc = "create_completion"
    /\ requests' = Append(requests, CompletionRequest(llm, prompt))
    /\ \E e \in EngineErrors : Terminate(e)
    /\ UNCHANGED <<llm, loaded, prompt, stream, output, result, stdout, runs,
                   prev>>

\* result = ""
InitResult ==
    /\ pc = "init_result"
    /\ result' = ""
    /\ pc' = "for_next"
    /\ UNCHANGED <<llm, loaded, prompt, requests, stream, output, stdout,
                   raised, error, runs, prev>>

\* variant: the generator is advanced twice per iteration
ForNextChunkSkip ==
    /\ pc = "for_next"
    /\ stream.pos < Len(stream.items)
    /\ output' = ChunkAt(stream, stream.pos + 1)
    /\ stream' = [stream EXCEPT !.pos = @ + 2]
    /\ pc' = "append"
    /\ UNCHANGED <<llm, loaded, prompt, requests, result, stdout, raised,
                   error, runs, prev>>

\* for output in stream:   -- the generator yields its next chunk
ForNextChunk ==
    /\ pc = "for_next"
    /\ stream.pos < Len(stream.items)
    /\ output' = ChunkAt(stream, stream.pos + 1)
    /\ stream' = [stream EXCEPT !.pos = @ + 1]
    /\ pc' = "append"
    /\ UNCHANGED <<llm, loaded, prompt, requests, result, stdout, raised,
                   error, runs, prev>>

\* for output in stream:   -- the generator is exhausted (StopIteration)
ForEndOfStream ==
    /\ pc = "for_next"
    /\ stream.pos = Len(stream.items)
    /\ stream.ending = "eos"
    /\ pc' = "print_marker"
    /\ UNCHANGED <<llm, loaded, prompt, requests, stream, output, result,
                   stdout, raised, error, runs, prev>>

\* variant: the exception is swallowed and the loop ends as if exhausted
ForRaiseSwallowed ==
    /\ pc = "for_next"
    /\ stream.pos = Len(stream.items)
    /\ stream.ending \in EngineErrors
    /\ pc' = "print_marker"
    /\ UNCHANGED <<llm, loaded, prompt, requests, stream, output, result,
                   stdout, raised, error, runs, prev>>

\* variant: the exception is caught and the request is issued again
ForRaiseRetry ==
    /\ pc = "for_next"
    /\ stream.pos = Len(stream.items)
    /\ stream.ending \in EngineErrors
    /\ pc' = "create_completion"
    /\ UNCHANGED <<llm, loaded, prompt, requests, stream, output, result,
                   stdout, raised, error, runs, prev>>

\* for output in stream:   -- the generator raises
ForRaise ==
    /\ pc = "for_next"
    /\ stream.pos = Len(stream.items)
    /\ stream.ending \in EngineErrors
    /\ Terminate(stream.ending)
    /\ UNCHANGED <<llm, loaded, prompt, requests, stream, output, result,
                   stdout, runs, prev>>

\* variant: each fragment is also printed as it arrives
AppendTextEcho ==
    /\ pc = "append"
    /\ result' = Accumulate(result, ChunkText(output))
    /\ stdout' = Append(stdout, ChunkText(output))
    /\ pc' = "for_next"
    /\ UNCHANGED <<llm, loaded, prompt, requests, stream, output, raised,
                   error, runs, prev>>

\*     result += output['choices'][0]['text']
AppendText ==
    /\ pc = "append"
    /\ result' = Accumulate(result, ChunkText(output))
    /\ pc' = "for_next"
    /\ UNCHANGED <<llm, loaded, prompt, requests, stream, output, stdout,
                   raised, error, runs, prev>>

\* variant: the two print statements are swapped
PrintMarkerSwapped ==
    /\ pc = "print_marker"
    /\ stdout' = Append(stdout, PrintLine(result))
    /\ pc' = "print_result"
    /\ UNCHANGED <<llm, loaded, prompt, requests, stream, output, result,
                   raised, error, runs, prev>>

\* print ("stream = True")
PrintMarker ==
    /\ pc = "print_marker"
    /\ stdout' = Append(stdout, PrintLine(MarkerText))
    /\ pc' = "print_result"
    /\ UNCHANGED <<llm, loaded, prompt, requests, stream, output, result,
                   raised, error, runs, prev>>

\* variant: an empty result is not printed
PrintResultIfNonEmpty ==
    /\ pc = "print_result"
    /\ stdout' = IF result = "" THEN stdout ELSE Append(stdout, PrintLine(result))
    /\ pc' = "exited"
    /\ UNCHANGED <<llm, loaded, prompt, requests, stream, output, result,
                   raised, error, runs, prev>>

\* print(result)
PrintResult ==
    /\ pc = "print_result"
    /\ stdout' = Append(stdout, PrintLine(result))
    /\ pc' = "exited"
    /\ UNCHANGED <<llm, loaded, prompt, requests, stream, output, result,
                   raised, error, runs, prev>>

\* what a finished process leaves for an observer comparing two runs
Outcome ==
    [pc |-> pc, id |-> stream.id, texts |-> stream.items, result |-> result,
     stdout |-> stdout]

\* the script is started again: a fresh interpreter, nothing carried over
Rerun ==
    /\ pc \in {"exited", "failed"}
    /\ runs < MaxRuns
    /\ runs' = runs + 1
    /\ prev' = Outcome
    /\ pc' = "load_wrapper"
    /\ llm' = NoClient
    /\ loaded' = <<>>
    /\ prompt' = Unbound
    /\ requests' = <<>>
    /\ stream' = NoStream
    /\ output' = NoChunk
    /\ result' = Unbound
    /\ stdout' = <<>>
    /\ raised' = NoError
    /\ error' = NoError

Next ==
    \/ LoadWrapper
    \/ LoadWrapperFail
    \/ LoadDirect
    \/ LoadDirectFail
    \/ BindPrompt
    \/ CreateCompletion
    \/ CreateCompletionFail
    \/ InitResult
    \/ ForNextChunk
    \/ ForEndOfStream
    \/ ForRaise
    \/ AppendText
    \/ PrintMarker
    \/ PrintResult
    \/ Rerun

Spec == Init /\ [][Next]_vars

\* The interpreter is single-threaded and blocking: whenever a statement can
\* run it does run, and the engine answers every request made of it.
FairSpec == Spec /\ WF_vars(Next)

----------------------------------------------------------------------------
(* Reference notions used by the properties *)

\* f1 + f2 + ... + fk for the first k texts of a fragment sequence
RECURSIVE Joined(_, _)
Joined(items, k) ==
    IF k = 0 THEN "" ELSE Joined(items, k - 1) \o items[k]

Accumulating == pc \in {"init_result", "for_next", "append"}

\* the loop has left through the end-of-stream signal
Complete == pc \in {"print_marker", "print_result", "exited"}

\* number of fragments whose text has been appended to `result`
Appended == IF pc = "append" THEN stream.pos - 1 ELSE stream.pos

SameRun == runs' = runs

----------------------------------------------------------------------------
(* Properties *)

\* C1: when the loop has exited through a normal end-of-stream, `result`
\* is f1 + ... + fn for the fragment sequence the stream delivered, and the
\* second line printed is that same concatenation.
C1_FinalResultIsConcatenation ==
    /\ Complete => result = Joined(stream.items, Len(stream.items))
    /\ pc = "exited" =>
           stdout[Len(stdout)] = Joined(stream.items, Len(stream.items)) \o "\n"

C1_Witness ==
    /\ pc = "exited"
    /\ stream.items = <<"b", "a">>
    /\ result = "ba"

\* C2: a stream that ends with an exception after k fragments ends the run
\* in the failed state with exactly the engine's exception; the run never
\* becomes complete, never writes anything (so never the truncated
\* concatenation) and issues no second request; once failed it stays so.
C2_StreamFailureSurfaced ==
    /\ [](stream.ending \in EngineErrors =>
            /\ ~Complete
            /\ stdout = <<>>
            /\ Len(requests) = 1
            /\ pc = "failed" =>
                   /\ error = stream.ending
                   /\ raised = stream.ending
                   /\ stream.pos = Len(stream.items))
    /\ [][(pc = "failed" /\ SameRun) =>
            (pc' = "failed" /\ stdout' = stdout /\ requests' = requests
             /\ error' = error)]_vars

C2_Witness ==
    /\ pc = "failed"
    /\ stream.ending = "RuntimeError"
    /\ stream.pos = 1
    /\ result = "a"
    /\ error = "RuntimeError"

\* C3: as long as the end-of-stream signal has not been received, nothing
\* has been written to standard output.
C3_NoOutputMidStream ==
    ~Complete => stdout = <<>>

C3_Witness ==
    /\ pc = "for_next"
    /\ stream.pos = 1
    /\ Len(stream.items) = 2
    /\ result = "b"
    /\ stdout = <<>>

\* C4: standard output is always an initial part of the two writes
\* "stream = True" and then the result, and a run that has exited made
\* exactly those two writes in that order.
C4_MarkerThenResult ==
    /\ Len(stdout) <= 2
    /\ Len(stdout) >= 1 => stdout[1] = "stream = True\n"
    /\ Len(stdout) = 2 => stdout[2] = result \o "\n"
    /\ pc = "print_result" => Len(stdout) = 1
    /\ pc = "exited" => Len(stdout) = 2

C4_Witness ==
    /\ pc = "exited"
    /\ stdout = <<"stream = True\n", "ab\n">>

\* C5: create_completion is called at most once per process, not at all
\* before the call site is reached, and exactly once in every run that got
\* past it (in particular every run that completes).
C5_OneRequestPerProcess ==
    /\ Len(requests) <= 1
    /\ (Accumulating \/ Complete) => Len(requests) = 1
    /\ pc \in {"load_wrapper", "load_direct", "bind_prompt", "create_completion"} =>
           Len(requests) = 0

C5_Witness ==
    /\ pc = "failed"
    /\ stream.ending \in EngineErrors
    /\ stream.pos = Len(stream.items)
    /\ Len(requests) = 1

\* C6: a stream that signals end-of-stream before any fragment leaves
\* `result` empty, and the run does not fail: it prints the marker line and
\* then the empty result.
C6_EmptyStream ==
    (stream.items = <<>> /\ stream.ending = "eos") =>
        /\ pc # "failed"
        /\ pc \in {"for_next", "print_marker", "print_result", "exited"} => result = ""
        /\ pc = "exited" => stdout = <<"stream = True\n", "\n">>

C6_Witness ==
    /\ pc = "exited"
    /\ stream.items = <<>>
    /\ stream.ending = "eos"
    /\ result = ""

\* C7: two completed runs whose streams delivered the same fragment texts
\* end with the same `result` and the same standard output, whatever else
\* differed between them.
C7_SameFragmentsSameOutput ==
    (prev.pc = "exited" /\ pc = "exited" /\ prev.texts = stream.items) =>
        (result = prev.result /\ stdout = prev.stdout)

C7_Witness ==
    /\ prev.pc = "exited"
    /\ pc = "exited"
    /\ prev.texts = stream.items
    /\ Len(stream.items) = 2
    /\ prev.id # stream.id
    /\ result = prev.result

\* C8: a run whose stream holds n fragments and ends with end-of-stream
\* eventually exits, having taken exactly n fragments from the generator;
\* the generator is only ever advanced one fragment at a time, an
\* accumulating run of such a stream only stays accumulating or becomes
\* complete, and a complete run never accumulates again.
C8_ConsumedToExhaustion ==
    /\ (pc = "init_result" /\ stream.ending = "eos")
           ~> (pc = "exited" /\ stream.pos = Len(stream.items))
    /\ [][SameRun =>
            /\ Complete => Complete'
            /\ (Accumulating /\ stream.ending = "eos") => (Accumulating' \/ Complete')
            /\ Accumulating =>
                   /\ stream'.items = stream.items
                   /\ stream'.pos \in {stream.pos, stream.pos + 1}
                   /\ stream'.pos <= Len(stream.items)
            /\ Complete => stream' = stream]_vars
    /\ [](Complete => stream.pos = Len(stream.items))

C8_Witness ==
    /\ pc = "exited"
    /\ stream.ending = "eos"
    /\ Len(stream.items) = MaxFrags
    /\ stream.pos = MaxFrags

\* C9: `result` is empty before the first fragment is requested and is at
\* every point the concatenation of exactly the fragments appended so far;
\* within a run it only grows at its end, and `prompt`, once bound, keeps
\* the script's prompt text.
C9_LoopInvariant ==
    /\ []((pc = "for_next" /\ stream.pos = 0) => result = "")
    /\ []((pc \in {"for_next", "append"} \/ Complete) =>
            result = Joined(stream.items, Appended))
    /\ []((pc = "failed" /\ result # Unbound) =>
            result = Joined(stream.items, stream.pos))
    /\ [](prompt \in {Unbound, PromptText})
    /\ []((pc = "create_completion" \/ Accumulating \/ Complete) =>
            prompt = PromptText)
    /\ [][(SameRun /\ result # Unbound) =>
            \E t \in Texts \cup {""} : result' = result \o t]_vars
    /\ [][(SameRun /\ prompt # Unbound) => prompt' = prompt]_vars

C9_Witness ==
    /\ pc = "append"
    /\ stream.pos = 2
    /\ result = "a"
    /\ ChunkText(output) = "b"
    /\ prompt = PromptText

\* C10: a request is issued only after the wrapper client and then the
\* direct client were constructed, and it goes to the direct client, never
\* to the wrapper; a run that failed while loading terminated with the
\* engine's exception, issued no request and wrote nothing.
C10_LoadBeforeGenerate ==
    /\ requests # <<>> => loaded = <<"LlamaCpp", "Llama">>
    /\ \A i \in 1..Len(requests) : requests[i].client = "Llama"
    /\ Len(loaded) <= 2
    /\ (Len(loaded) >= 1 => loaded[1] = "LlamaCpp")
    /\ (pc = "failed" /\ Len(loaded) < 2) =>
           /\ requests = <<>>
           /\ stdout = <<>>
           /\ error \in EngineErrors
           /\ error = raised

C10_Witness ==
    /\ Len(requests) = 1
    /\ requests[1].client = "Llama"
    /\ loaded = <<"LlamaCpp", "Llama">>
    /\ pc = "exited"

C10_WitnessLoadFailure ==
    /\ pc = "failed"
    /\ loaded = <<"LlamaCpp">>
    /\ requests = <<>>

====
